---- MODULE Spec2Model ----
(***************************************************************************)
(* Model of wikiman/groff/structures.py: the GroffColumnSpecifiers flag    *)
(* class with its overriding __or__, the GroffColumnOptions flag class,    *)
(* the GroffColumnSection stubs and GroffParagraph.__str__.                *)
(*                                                                         *)
(* Flag values are the integers the enum machinery assigns (auto()), and   *)
(* the bit operations are computed on the integers.  The module imports    *)
(* enum._decompose, so it runs on the enum implementation of Python 3.6 to *)
(* 3.10; Decompose, Contains and FlagOr follow that implementation.        *)
(***************************************************************************)
EXTENDS Integers, Sequences, FiniteSets

VARIABLES
    name,        \* GroffColumnSpecifiers: _name_ of each class member, by value
    lhs,         \* left operand (self) of the specifier |
    rhs,         \* right operand (other) of the specifier |
    res,         \* outcome of the last specifier | on lhs, rhs
    kept,        \* a specifier value the caller holds for later use
    optX,        \* left operand of the GroffColumnOptions |
    optY,        \* right operand of the GroffColumnOptions |
    optRes,      \* outcome of the last options | on optX, optY
    section,     \* GroffColumnSection: its attributes (options only)
    sectionCall, \* GroffColumnSection: the last method called and what it returned
    raw_content, \* GroffParagraph.raw_content
    paraOut      \* what GroffParagraph.__str__ last returned

vars == <<name, lhs, rhs, res, kept, optX, optY, optRes, section, sectionCall,
          raw_content, paraOut>>

specifierVars == <<name, lhs, rhs, res, kept>>
optionVars == <<optX, optY, optRes>>
sectionVars == <<section, sectionCall>>
paragraphVars == <<raw_content, paraOut>>

\* what an operation on one class leaves alone: the other classes' objects
notSpecifier == <<optionVars, sectionVars, paragraphVars>>
notOption == <<specifierVars, sectionVars, paragraphVars>>
notSection == <<specifierVars, optionVars, paragraphVars>>
notParagraph == <<specifierVars, optionVars, sectionVars>>

(***************************************************************************)
(* Integer bit operations (Python int &, |, ^ on non-negative values).     *)
(***************************************************************************)
RECURSIVE BitAnd(_, _)
BitAnd(x, y) ==
    IF x = 0 \/ y = 0 THEN 0
    ELSE (x % 2) * (y % 2) + 2 * BitAnd(x \div 2, y \div 2)

RECURSIVE BitOr(_, _)
BitOr(x, y) ==
    IF x = 0 THEN y
    ELSE IF y = 0 THEN x
    ELSE (IF x % 2 = 1 \/ y % 2 = 1 THEN 1 ELSE 0) + 2 * BitOr(x \div 2, y \div 2)

RECURSIVE BitXor(_, _)
BitXor(x, y) ==
    IF x = 0 THEN y
    ELSE IF y = 0 THEN x
    ELSE ((x + y) % 2) + 2 * BitXor(x \div 2, y \div 2)

\* enum._power_of_two: value >= 1 and a single bit set
RECURSIVE PowerOfTwo(_)
PowerOfTwo(v) ==
    IF v < 1 THEN FALSE
    ELSE IF v = 1 THEN TRUE
    ELSE v % 2 = 0 /\ PowerOfTwo(v \div 2)

\* list.sort(key=value, reverse=True) on a set of distinct values
RECURSIVE SortDesc(_)
SortDesc(S) ==
    IF S = {} THEN << >>
    ELSE LET m == CHOOSE x \in S : \A y \in S : y <= x
         IN  <<m>> \o SortDesc(S \ {m})

(***************************************************************************)
(* GroffColumnSpecifiers: the members.  auto() numbers them 1, 2, 4, ...   *)
(***************************************************************************)
RELATIVE_CENTER == 1
CENTER == 2
LEFT_ALIGNED == 4
RIGHT_ALIGNED == 8
NUMBER_ALIGNED == 16
VERTICAL_SPAN == 32
HORIZONTAL_SPAN == 64

\* The seven flags named in the class body.
NamedFlags ==
    {RELATIVE_CENTER, CENTER, LEFT_ALIGNED, RIGHT_ALIGNED, NUMBER_ALIGNED,
     VERTICAL_SPAN, HORIZONTAL_SPAN}

\* A mutation of uncombinable: RIGHT_ALIGNED left out of the exclusive group.
uncombinable_without_right == BitOr(BitOr(RELATIVE_CENTER, CENTER), LEFT_ALIGNED)

\* _uncombinable = (RELATIVE_CENTER | CENTER | LEFT_ALIGNED | RIGHT_ALIGNED).
\* In the class body the names are bound to the auto() integers, and the name
\* is neither a dunder nor a sunder nor a descriptor, so the enum machinery
\* makes it an eighth member whose value is the int 15.
uncombinable ==
    BitOr(BitOr(BitOr(RELATIVE_CENTER, CENTER), LEFT_ALIGNED), RIGHT_ALIGNED)

\* Values of the members the class body creates (_member_map_).
ClassMembers == NamedFlags \cup {uncombinable}

\* Every value whose bits are all named flags has one member object:
\* Flag._missing_ creates and caches a pseudo-member for a composite value.
AllBits == BitOr(BitOr(BitOr(uncombinable, NUMBER_ALIGNED), VERTICAL_SPAN), HORIZONTAL_SPAN)
SpecifierValues == 0 .. AllBits

NoName == "None"

\* _name_ of every class member once the class is created.
OriginalNames ==
    [m \in ClassMembers |->
        CASE m = RELATIVE_CENTER -> "RELATIVE_CENTER"
          [] m = CENTER -> "CENTER"
          [] m = LEFT_ALIGNED -> "LEFT_ALIGNED"
          [] m = RIGHT_ALIGNED -> "RIGHT_ALIGNED"
          [] m = NUMBER_ALIGNED -> "NUMBER_ALIGNED"
          [] m = VERTICAL_SPAN -> "VERTICAL_SPAN"
          [] m = HORIZONTAL_SPAN -> "HORIZONTAL_SPAN"
          [] OTHER -> "_uncombinable"]

\* _name_ of the member with value v: a pseudo-member's _name_ is None.
NameOf(nm, v) == IF v \in DOMAIN nm THEN nm[v] ELSE NoName

\* Flag.__contains__: other in flag  <=>  other._value_ & flag._value_ == other._value_
Contains(flag, other) == BitAnd(other, flag) = other

\* Flag.__or__ / Flag.__xor__: the member whose value is the bitwise result.
FlagOr(x, y) == BitOr(x, y)
FlagXor(x, y) == BitXor(x, y)

\* enum._decompose(cls, value)[0] for the value of an existing member: the
\* named or power-of-two members contained in value, largest first, without
\* the member for value itself when it has a breakdown.  Only class members
\* can be named or a power of two (a pseudo-member is a composite or 0 and
\* its _name_ is None), so they are the candidates of flags_to_check.
Decompose(value, nm) ==
    LET flags_to_check ==
            {m \in ClassMembers : NameOf(nm, m) # NoName \/ PowerOfTwo(m)}
        found == {m \in flags_to_check : m # 0 /\ BitAnd(m, value) = m}
        members == SortDesc(IF found = {} THEN {value} ELSE found)
    IN  IF Len(members) > 1 /\ members[1] = value THEN Tail(members) ELSE members

\* line 44
self_components(self, nm) == Decompose(self, nm)

\* line 45
other_components(other, nm) == Decompose(other, nm)

\* line 46, before [:1][0]: the components of self that are in _uncombinable
self_primaries(self, nm) ==
    SelectSeq(self_components(self, nm), LAMBDA x : Contains(uncombinable, x))

\* A mutation of other_combinable: the filter is dropped.
other_combinable_unfiltered(other, nm) == other_components(other, nm)

\* line 47
other_combinable(other, nm) ==
    SelectSeq(other_components(other, nm), LAMBDA x : ~Contains(uncombinable, x))

\* lines 49-50
RECURSIVE OrAll(_, _)
OrAll(acc, vals) ==
    IF vals = << >> THEN acc ELSE OrAll(FlagOr(acc, Head(vals)), Tail(vals))

\* A mutation of usable_output: the fold starts from self, not from self_primary.
usable_output_from_self(self, other, nm) ==
    OrAll(self, other_combinable(other, nm))

\* lines 46, 48-50 when self has a primary: self_primary OR-ed with each
\* combinable component of other
usable_output(self, other, nm) ==
    OrAll(Head(self_primaries(self, nm)), other_combinable(other, nm))

NoResult == [kind |-> "none"]

\* What self | other returns or raises (lines 41-52).  [:1][0] on an empty
\* list raises IndexError.
OrOutcome(self, other, nm) ==
    IF self_primaries(self, nm) = << >>
    THEN [kind |-> "IndexError"]
    ELSE [kind |-> "value", value |-> usable_output(self, other, nm)]

\* line 51: usable_output._name_ = None when other contributed a component.
\* The assignment is made on whatever member object Flag.__or__ returned.
NamesAfterOr(self, other, nm) ==
    IF self_primaries(self, nm) = << >> THEN nm
    ELSE LET out == usable_output(self, other, nm)
         IN  IF Len(other_combinable(other, nm)) > 0 /\ out \in DOMAIN nm
             THEN [nm EXCEPT ![out] = NoName]
             ELSE nm

(***************************************************************************)
(* Initial state: the classes are created, the operands are the first      *)
(* member of each class, a default section and an empty-string paragraph.  *)
(***************************************************************************)
SpecifierInit ==
    /\ name = OriginalNames
    /\ lhs = RELATIVE_CENTER
    /\ rhs = RELATIVE_CENTER
    /\ res = NoResult
    /\ kept = RELATIVE_CENTER

(***************************************************************************)
(* Operations on GroffColumnSpecifiers.                                    *)
(***************************************************************************)
\* GroffColumnSpecifiers.<FLAG> bound as the left / right operand
PickLeft(f) ==
    /\ lhs' = f
    /\ res' = NoResult
    /\ UNCHANGED <<name, rhs, kept, notSpecifier>>

PickRight(f) ==
    /\ rhs' = f
    /\ res' = NoResult
    /\ UNCHANGED <<name, lhs, kept, notSpecifier>>

\* operand ^ GroffColumnSpecifiers.<FLAG>: the inherited Flag.__xor__ builds
\* any specifier value, the empty one (value 0) included
XorLeft(f) ==
    /\ lhs' = FlagXor(lhs, f)
    /\ res' = NoResult
    /\ UNCHANGED <<name, rhs, kept, notSpecifier>>

XorRight(f) ==
    /\ rhs' = FlagXor(rhs, f)
    /\ res' = NoResult
    /\ UNCHANGED <<name, lhs, kept, notSpecifier>>

\* lhs | rhs: GroffColumnSpecifiers.__or__
SpecifierOr ==
    /\ res' = OrOutcome(lhs, rhs, name)
    /\ name' = NamesAfterOr(lhs, rhs, name)
    /\ UNCHANGED <<lhs, rhs, kept, notSpecifier>>

\* the value returned by | used as the next left / right operand
FeedLeft ==
    /\ res.kind = "value"
    /\ lhs' = res.value
    /\ res' = NoResult
    /\ UNCHANGED <<name, rhs, kept, notSpecifier>>

FeedRight ==
    /\ res.kind = "value"
    /\ rhs' = res.value
    /\ res' = NoResult
    /\ UNCHANGED <<name, lhs, kept, notSpecifier>>

\* the value returned by | stored, and a stored value used as an operand
Keep ==
    /\ res.kind = "value"
    /\ kept' = res.value
    /\ UNCHANGED <<name, lhs, rhs, res, notSpecifier>>

TakeLeft ==
    /\ lhs' = kept
    /\ res' = NoResult
    /\ UNCHANGED <<name, rhs, kept, notSpecifier>>

TakeRight ==
    /\ rhs' = kept
    /\ res' = NoResult
    /\ UNCHANGED <<name, lhs, kept, notSpecifier>>

(***************************************************************************)
(* GroffColumnOptions: a Flag class with no method of its own, so | is the *)
(* inherited Flag.__or__: the member for the bitwise or of the two values. *)
(***************************************************************************)
BOLD == 1
ITALIC == 2
VERTICAL_SPAN_START_BOTTOM == 4
VERTICAL_SPAN_START_TOP == 8
UP_HALF_LINE == 16
EXPAND_COLUMN == 32
IGNORE_COLUMN == 64

OptionFlags ==
    {BOLD, ITALIC, VERTICAL_SPAN_START_BOTTOM, VERTICAL_SPAN_START_TOP,
     UP_HALF_LINE, EXPAND_COLUMN, IGNORE_COLUMN}

\* A mutation of OptionOr: exclusive or, so a flag given twice is dropped.
OptionOrExclusive(x, y) == BitXor(x, y)

\* x | y on GroffColumnOptions
OptionOr(x, y) == BitOr(x, y)

OptionInit ==
    /\ optX = BOLD
    /\ optY = BOLD
    /\ optRes = NoResult

\* operand ^ GroffColumnOptions.<FLAG>: builds any option set, the empty one too
OptXorX(f) ==
    /\ optX' = BitXor(optX, f)
    /\ optRes' = NoResult
    /\ UNCHANGED <<optY, notOption>>

OptXorY(f) ==
    /\ optY' = BitXor(optY, f)
    /\ optRes' = NoResult
    /\ UNCHANGED <<optX, notOption>>

\* optX | optY
OptionsOr ==
    /\ optRes' = [kind |-> "value", value |-> OptionOr(optX, optY)]
    /\ UNCHANGED <<optX, optY, notOption>>

(***************************************************************************)
(* GroffColumnSection: __init__ stores options; every other method body is *)
(* pass, so it stores nothing and returns None.                            *)
(***************************************************************************)
None == "None"

\* the dict __init__ builds when options is None (lines 128-137)
DefaultOptions ==
    [center |-> FALSE, expand |-> FALSE, box |-> FALSE, allbox |-> FALSE,
     doublebox |-> FALSE, tab |-> "^", linesize |-> None, delim |-> None]

\* options objects a caller passes: dicts of the same keys
OptionDicts ==
    [center : BOOLEAN, expand : BOOLEAN, box : BOOLEAN, allbox : BOOLEAN,
     doublebox : BOOLEAN, tab : {"^"}, linesize : {None}, delim : {None}]

Called(method, returned) == [method |-> method, returned |-> returned]

SectionInit ==
    /\ section = [options |-> DefaultOptions]
    /\ sectionCall = Called("__init__", None)

\* GroffColumnSection(): options is None (lines 127-137)
NewDefaultSection ==
    /\ section' = [options |-> DefaultOptions]
    /\ sectionCall' = Called("__init__", None)
    /\ UNCHANGED notSection

\* GroffColumnSection(options) (lines 125-126)
NewSection(options) ==
    /\ section' = [options |-> options]
    /\ sectionCall' = Called("__init__", None)
    /\ UNCHANGED notSection

\* The rows and the declared column count a section holds: the class has no
\* attribute for either, and add_row / add_column store nothing.
SectionRows(s) == << >>
SectionColumns(s) == << >>

add_row ==
    /\ sectionCall' = Called("add_row", None)
    /\ UNCHANGED <<section, notSection>>

remove_row ==
    /\ sectionCall' = Called("remove_row", None)
    /\ UNCHANGED <<section, notSection>>

add_column ==
    /\ sectionCall' = Called("add_column", None)
    /\ UNCHANGED <<section, notSection>>

remove_column ==
    /\ sectionCall' = Called("remove_column", None)
    /\ UNCHANGED <<section, notSection>>

\* GroffColumnSection.__str__: pass, so it returns None (str(section) then
\* raises TypeError: __str__ returned non-string)
SectionStr(s) == None

RenderSection ==
    /\ sectionCall' = Called("__str__", SectionStr(section))
    /\ UNCHANGED <<section, notSection>>

(***************************************************************************)
(* GroffParagraph.  A str is modelled as its lines, each line as the       *)
(* number of leading spaces and the text after them (body "" is a line of  *)
(* spaces only: the last line of the literal); a rendered entity as the    *)
(* sequence of its pieces.                                                 *)
(***************************************************************************)
MaxLines == 2
MaxIndent == 2
MaxItems == 3

\* the spaces before .LP, {content} and the closing quotes in the literal
TemplateIndent == 12

Line(indent, body) == [indent |-> indent, body |-> body]

\* contents are lines of text
Bodies == {"a", "b"}
Lines == [indent : 0 .. MaxIndent, body : Bodies]

RECURSIVE SeqsUpTo(_, _)
SeqsUpTo(S, n) ==
    IF n = 0 THEN {<< >>}
    ELSE LET shorter == SeqsUpTo(S, n - 1)
         IN  shorter \cup {Append(q, x) : q \in {r \in shorter : Len(r) = n - 1}, x \in S}

\* str contents: one line or more
StrContents ==
    {[type |-> "str", lines |-> ls] : ls \in SeqsUpTo(Lines, MaxLines) \ {<< >>}}

\* GroffText(text), GroffColouredText(colour, text)
Entities ==
    {[cls |-> "GroffText", colour |-> None, raw_text |-> "a"],
     [cls |-> "GroffColouredText", colour |-> "red", raw_text |-> "a"]}

ListContents ==
    {[type |-> "list", items |-> its] : its \in SeqsUpTo(Entities, MaxItems)}

\* GroffText.__str__ (line 89), GroffColouredText.__str__ (line 99)
EntityStr(e) ==
    IF e.cls = "GroffText" THEN <<e.raw_text>>
    ELSE <<"\\m[", e.colour, "]", e.raw_text, "\\m[]">>

\* lines 214-217: rval += str(item) for each item
RECURSIVE Rval(_)
Rval(items) ==
    IF items = << >> THEN << >> ELSE EntityStr(Head(items)) \o Rval(Tail(items))

\* lines 209-212, the argument of dedent: the literal with content put in
\* place of {content}.  The first content line follows the literal's spaces;
\* the other content lines start at column 0.
Formatted(content) ==
    <<Line(TemplateIndent, ".LP"),
      Line(TemplateIndent + Head(content).indent, Head(content).body)>>
    \o Tail(content)
    \o <<Line(TemplateIndent, "")>>

Min(S) == CHOOSE x \in S : \A y \in S : x <= y

\* textwrap.dedent: lines of spaces only become empty, and the leading
\* spaces common to all the other lines are removed from them
Dedent(text) ==
    LET margin == Min({text[i].indent : i \in {j \in DOMAIN text : text[j].body # ""}})
    IN  [i \in DOMAIN text |->
            IF text[i].body = "" THEN Line(0, "")
            ELSE Line(text[i].indent - margin, text[i].body)]

\* GroffParagraph.__str__ (lines 207-221).  The list branch builds rval and
\* ends without a return statement, so the call returns None.
ParagraphStr(content) ==
    IF content.type = "str"
    THEN [kind |-> "str", lines |-> Dedent(Formatted(content.lines))]
    ELSE LET rval == Rval(content.items)
         IN  [kind |-> None]

ParagraphInit ==
    /\ raw_content = [type |-> "str", lines |-> <<Line(0, "a")>>]
    /\ paraOut = [kind |-> "NotCalled"]

\* GroffParagraph(content)
NewParagraph(content) ==
    /\ raw_content' = content
    /\ paraOut' = [kind |-> "NotCalled"]
    /\ UNCHANGED notParagraph

\* GroffParagraph.__str__
RenderParagraph ==
    /\ paraOut' = ParagraphStr(raw_content)
    /\ UNCHANGED <<raw_content, notParagraph>>

(***************************************************************************)
(* Specifications.                                                         *)
(***************************************************************************)
Init == SpecifierInit /\ OptionInit /\ SectionInit /\ ParagraphInit

\* Specifier values of any kind combined with |
Next ==
    \/ \E f \in NamedFlags : XorLeft(f)
    \/ \E f \in NamedFlags : XorRight(f)
    \/ SpecifierOr
    \/ FeedLeft
    \/ FeedRight

Spec == Init /\ [][Next]_vars

\* Only the seven named flags and the results of | are operands
NextOr ==
    \/ \E f \in NamedFlags : PickLeft(f)
    \/ \E f \in NamedFlags : PickRight(f)
    \/ SpecifierOr
    \/ FeedLeft
    \/ FeedRight
    \/ Keep
    \/ TakeLeft
    \/ TakeRight

SpecOr == Init /\ [][NextOr]_vars

NextOptions ==
    \/ \E f \in OptionFlags : OptXorX(f)
    \/ \E f \in OptionFlags : OptXorY(f)
    \/ OptionsOr

SpecOptions == Init /\ [][NextOptions]_vars

NextSection ==
    \/ NewDefaultSection
    \/ \E o \in OptionDicts : NewSection(o)
    \/ add_row
    \/ remove_row
    \/ add_column
    \/ remove_column
    \/ RenderSection

SpecSection == Init /\ [][NextSection]_vars

NextParagraph ==
    \/ \E c \in StrContents \cup ListContents : NewParagraph(c)
    \/ RenderParagraph

SpecParagraph == Init /\ [][NextParagraph]_vars

(***************************************************************************)
(* Properties.                                                             *)
(***************************************************************************)
PrimaryFlags == {RELATIVE_CENTER, CENTER, LEFT_ALIGNED, RIGHT_ALIGNED}
SpanModifiers == {VERTICAL_SPAN, HORIZONTAL_SPAN}

\* the single flags set in a value (the bit values are those of both classes)
FlagsOf(v) == {f \in NamedFlags : BitAnd(v, f) = f}
PrimariesOf(v) == FlagsOf(v) \cap PrimaryFlags
OnePrimary(v) == Cardinality(PrimariesOf(v)) = 1
OrCalled == res.kind # "none"

\* C1: when a and b each consist of exactly one primary flag plus a subset of
\* {VERTICAL_SPAN, HORIZONTAL_SPAN}, a | b has a's primary flag as its only
\* primary flag and its modifiers are a's modifiers together with b's.
C1_ModifiersOfBothOperands ==
    (/\ OrCalled
     /\ OnePrimary(lhs) /\ NUMBER_ALIGNED \notin FlagsOf(lhs)
     /\ OnePrimary(rhs) /\ NUMBER_ALIGNED \notin FlagsOf(rhs))
    => /\ res.kind = "value"
       /\ PrimariesOf(res.value) = PrimariesOf(lhs)
       /\ FlagsOf(res.value) \cap SpanModifiers
            = (FlagsOf(lhs) \cup FlagsOf(rhs)) \cap SpanModifiers

C3_AtMostOnePrimary ==
    /\ Cardinality(PrimariesOf(lhs)) <= 1
    /\ Cardinality(PrimariesOf(rhs)) <= 1
    /\ Cardinality(PrimariesOf(kept)) <= 1
    /\ res.kind = "value" => Cardinality(PrimariesOf(res.value)) <= 1

\* C3 witness: two results of | with different primary flags are combined
C3_Witness ==
    /\ lhs = BitOr(RIGHT_ALIGNED, VERTICAL_SPAN)
    /\ rhs = BitOr(LEFT_ALIGNED, NUMBER_ALIGNED)
    /\ res.kind = "value"

\* C4: NUMBER_ALIGNED is a primary alignment flag: a | b raises no error when
\* a is NUMBER_ALIGNED, and every result of | holds exactly one of CENTER,
\* RELATIVE_CENTER, LEFT_ALIGNED, RIGHT_ALIGNED, NUMBER_ALIGNED.
C4_NumberAlignedIsPrimary ==
    OrCalled
    => /\ lhs = NUMBER_ALIGNED => res.kind = "value"
       /\ res.kind = "value"
            => Cardinality(FlagsOf(res.value) \cap (PrimaryFlags \cup {NUMBER_ALIGNED})) = 1

\* C5: a | b fails whenever a carries no primary alignment flag (a bare
\* modifier, a modifier-only set or the empty specifier), and does not fail
\* when a carries a primary flag and b is a bare modifier.
C5_FailsIffNoLeftPrimary ==
    OrCalled
    => /\ PrimariesOf(lhs) = {} => res.kind = "IndexError"
       /\ (PrimariesOf(lhs) # {} /\ rhs \in SpanModifiers) => res.kind = "value"

\* C6: when a and b carry distinct primary flags (each with any modifiers),
\* a | b and b | a are different values.
C6_NotCommutative ==
    (OrCalled /\ OnePrimary(lhs) /\ OnePrimary(rhs) /\ PrimariesOf(lhs) # PrimariesOf(rhs))
    => /\ res.kind = "value"
       /\ OrOutcome(rhs, lhs, name).kind = "value"
       /\ OrOutcome(rhs, lhs, name).value # res.value

\* C6 witness: distinct primary flags, one operand with a modifier
C6_Witness ==
    /\ lhs = CENTER
    /\ rhs = BitOr(LEFT_ALIGNED, VERTICAL_SPAN)
    /\ res = [kind |-> "value", value |-> BitOr(CENTER, VERTICAL_SPAN)]

OptionValues == 0 .. AllBits
OptionFlagsOf(v) == {f \in OptionFlags : BitAnd(v, f) = f}

\* C7: | on GroffColumnOptions is plain set union of the flags: commutative,
\* associative, idempotent, and the flags of x | y are exactly those of x
\* together with those of y.
C7_OptionsUnion ==
    optRes.kind = "value"
    => /\ optRes.value = OptionOr(optY, optX)
       /\ OptionOr(optX, optX) = optX
       /\ OptionFlagsOf(optRes.value) = OptionFlagsOf(optX) \cup OptionFlagsOf(optY)
       /\ \A z \in OptionValues :
            OptionOr(optRes.value, z) = OptionOr(optX, OptionOr(optY, z))

\* C7 witness: two overlapping option sets, neither containing the other
C7_Witness ==
    /\ optX = BitOr(BOLD, ITALIC)
    /\ optY = BitOr(ITALIC, EXPAND_COLUMN)
    /\ optRes = [kind |-> "value", value |-> BitOr(BitOr(BOLD, ITALIC), EXPAND_COLUMN)]

RowMismatch(s) ==
    \E i \in DOMAIN SectionRows(s) : Len(SectionRows(s)[i]) # Len(SectionColumns(s))

\* C8: after any add_row, remove_row, add_column, remove_column calls,
\* rendering a section raises StructuralMismatch exactly when some row's cell
\* count differs from the declared column count, and otherwise returns the
\* section's markup string.
C8_RenderChecksArity ==
    sectionCall.method = "__str__"
    => /\ sectionCall.returned = "StructuralMismatch" <=> RowMismatch(section)
       /\ ~RowMismatch(section) => sectionCall.returned = "str"

\* C9: rendering a paragraph returns a markup string for str and for list
\* content: .LP followed by the content for a str, the items' rendered text
\* in order for a list.
C9_ParagraphRendersString ==
    paraOut.kind # "NotCalled"
    => /\ paraOut.kind = "str"
       /\ raw_content.type = "str"
            => paraOut.lines = <<Line(0, ".LP")>> \o raw_content.lines \o <<Line(0, "")>>
       /\ raw_content.type = "list" => paraOut.pieces = Rval(raw_content.items)

\* C10: | has no effect on the named members: after any sequence of | calls
\* every named flag still has its original name.
C10_NamesUntouched == name = OriginalNames
====
